---- MODULE Spec2Model ----
(***************************************************************************)
(* Model of src/base/compiler.hh.                                          *)
(*                                                                         *)
(* The header is a list of preprocessor directives.  The model is the      *)
(* preprocessor working through them for one toolchain configuration: the  *)
(* state is the macro table, the position in the header and whether an     *)
(* #error directive was met.  Once the header was processed without error, *)
(* a translation unit may use the macros; a use is expanded by the         *)
(* preprocessor rules (argument collection, substitution, rescan) and the  *)
(* expanded C++ text is then evaluated by a small interpreter for the      *)
(* constructs the macro bodies are written in (comma operator, braced      *)
(* initializer list, do/while, lambda expression, __builtin_expect).       *)
(***************************************************************************)
EXTENDS Integers, Sequences, FiniteSets, TLC

VARIABLES cfg, macros, pc, failed, use, input, result

vars == <<cfg, macros, pc, failed, use, input, result>>

(***************************************************************************)
(* Bounds of the model.                                                    *)
(***************************************************************************)
MinGnuc == 4        \* smallest value of __GNUC__ explored
MaxGnuc == 6        \* largest value of __GNUC__ explored
MaxPack == 3        \* largest parameter pack expanded
MaxArgs == 2        \* most arguments handed to GEM5_FOR_EACH_IN_PACK
MaxCond == 2        \* conditions range over -1 .. MaxCond

\* The __GNUC__ threshold of "#if defined(__clang__) || __GNUC__ >= 6".
EnumDeprecationGnuc == 6

(***************************************************************************)
(* Toolchain configurations: the answers of __has_cpp_attribute, the value *)
(* of __GNUC__ (0 when it is not defined) and whether __clang__ is         *)
(* defined.                                                                *)
(***************************************************************************)
Configs ==
    [has_fallthrough : BOOLEAN, has_nodiscard : BOOLEAN,
     has_maybe_unused : BOOLEAN, gnuc : {0} \cup (MinGnuc..MaxGnuc),
     clang : BOOLEAN]

DefinedGNUC(c) == c.gnuc # 0

(***************************************************************************)
(* Preprocessing tokens.  s is the spelling; j and k are 0 except for the  *)
(* operands a use site hands to a macro: j numbers the operand and k, once *)
(* a pack expansion was instantiated, the pack element it stands for.      *)
(***************************************************************************)
Tok(s) == [s |-> s, j |-> 0, k |-> 0]

T(ss) == [i \in 1..Len(ss) |-> Tok(ss[i])]

Operand(j) == [s |-> "expr", j |-> j, k |-> 0]

\* A macro definition: the line of its #define, its kind, its parameters
\* (<<"...">> for a variadic macro) and its replacement list.
ObjectLike(line, ss) ==
    [line |-> line, fn |-> FALSE, params |-> <<>>, body |-> T(ss)]

FunctionLike(line, params, ss) ==
    [line |-> line, fn |-> TRUE, params |-> params, body |-> T(ss)]

(***************************************************************************)
(* Macro expansion.                                                        *)
(***************************************************************************)
RECURSIVE Concat(_)
Concat(seqs) ==
    IF seqs = <<>> THEN <<>> ELSE Head(seqs) \o Concat(Tail(seqs))

\* Index of the token that closes the bracket opened just before toks[i].
RECURSIVE Match(_, _, _, _, _)
Match(toks, i, d, open, close) ==
    IF i > Len(toks) THEN 0
    ELSE IF toks[i].s = open THEN Match(toks, i + 1, d + 1, open, close)
    ELSE IF toks[i].s = close
         THEN IF d = 1 THEN i ELSE Match(toks, i + 1, d - 1, open, close)
    ELSE Match(toks, i + 1, d, open, close)

\* toks split at the commas that are nested in none of the brackets of
\* opens/closes.
RECURSIVE SplitAcc(_, _, _, _, _, _)
SplitAcc(toks, i, d, cur, opens, closes) ==
    IF i > Len(toks) THEN <<cur>>
    ELSE IF toks[i].s = "," /\ d = 0
         THEN <<cur>> \o SplitAcc(toks, i + 1, d, <<>>, opens, closes)
    ELSE SplitAcc(toks, i + 1,
                  IF toks[i].s \in opens THEN d + 1
                  ELSE IF toks[i].s \in closes THEN d - 1 ELSE d,
                  Append(cur, toks[i]), opens, closes)

\* The arguments of a macro invocation: only parentheses nest.
MacroArgs(toks) == SplitAcc(toks, 1, 0, <<>>, {"("}, {")"})

ParamIndex(params, s) == CHOOSE i \in 1..Len(params) : params[i] = s

\* The replacement list with each parameter replaced by its argument;
\* __VA_ARGS__ stands for all the variable arguments, commas included.
Substitute(m, args, all) ==
    Concat([i \in 1..Len(m.body) |->
        LET t == m.body[i] IN
        IF t.s = "__VA_ARGS__" /\ m.params = <<"...">> THEN all
        ELSE IF t.s # "..." /\ \E p \in 1..Len(m.params) : m.params[p] = t.s
             THEN LET p == ParamIndex(m.params, t.s) IN
                  IF p <= Len(args) THEN args[p] ELSE <<>>
        ELSE <<t>>])

\* toks with every macro of tbl replaced, rescanning the replacement with
\* the macro being replaced disabled.
RECURSIVE Expand(_, _, _)
Expand(toks, tbl, off) ==
    IF toks = <<>> THEN <<>>
    ELSE
      LET t == Head(toks)
          rest == Tail(toks)
      IN
      IF t.s \notin DOMAIN tbl \/ t.s \in off
        THEN <<t>> \o Expand(rest, tbl, off)
      ELSE IF ~tbl[t.s].fn
        THEN Expand(tbl[t.s].body, tbl, off \cup {t.s}) \o Expand(rest, tbl, off)
      ELSE IF rest = <<>> \/ Head(rest).s # "("
        THEN <<t>> \o Expand(rest, tbl, off)
      ELSE
        LET close == Match(rest, 2, 1, "(", ")")
            inner == SubSeq(rest, 2, close - 1)
            raw == MacroArgs(inner)
            args == [a \in 1..Len(raw) |-> Expand(raw[a], tbl, off)]
            all == Expand(inner, tbl, off)
        IN Expand(Substitute(tbl[t.s], args, all), tbl, off \cup {t.s})
             \o Expand(SubSeq(rest, close + 1, Len(rest)), tbl, off)

\* What a use of the macro name expands to, alone or with operands.
ExpandName(name, tbl) == Expand(T(<<name>>), tbl, {})

RECURSIVE OperandList(_)
OperandList(n) ==
    IF n = 0 THEN <<>>
    ELSE IF n = 1 THEN <<Operand(1)>>
    ELSE OperandList(n - 1) \o <<Tok(","), Operand(n)>>

Invocation(name, n) == <<Tok(name), Tok("(")>> \o OperandList(n) \o <<Tok(")")>>

ExpandCall(name, n, tbl) == Expand(Invocation(name, n), tbl, {})

(***************************************************************************)
(* Evaluation of the expanded text.  v is the value an operand of the use  *)
(* site yields and n the size of the parameter pack of the enclosing       *)
(* template instantiation.  A result holds the value, the operands         *)
(* evaluated in evaluation order (log), the number of lambda calls, whether*)
(* a do/while asks for another iteration, and the tokens not yet consumed. *)
(***************************************************************************)
Res(val, log, calls, again, rest) ==
    [val |-> val, log |-> log, calls |-> calls, again |-> again, rest |-> rest]

From(toks, i) == SubSeq(toks, i, Len(toks))

IsAt(toks, i, s) == i <= Len(toks) /\ toks[i].s = s

\* __builtin_expect(exp, c) yields exp; c is only the expected value.
BuiltinExpect(exp, c) == exp

\* The order in which the n clauses of a braced initializer list are
\* evaluated: in order of appearance.
InitListOrder_mut(n) == [i \in 1..n |-> n + 1 - i]

InitListOrder(n) == [i \in 1..n |-> i]

\* The clauses of an initializer list after pack expansion: a clause that
\* ends in "..." is instantiated once per element of the pack.
InstantiatePack(clauses, n) ==
    Concat([c \in 1..Len(clauses) |->
        LET cl == clauses[c] IN
        IF cl # <<>> /\ cl[Len(cl)].s = "..."
        THEN [e \in 1..n |->
                 [i \in 1..(Len(cl) - 1) |->
                     IF cl[i].j # 0 THEN [cl[i] EXCEPT !.k = e] ELSE cl[i]]]
        ELSE <<cl>>])

RECURSIVE Primary(_, _, _), CommaExpr(_, _, _), ExecStmts(_, _, _),
          EvalClauses(_, _, _, _)

Primary(toks, v, n) ==
    LET h == toks[1].s IN
    IF h = "!"
      THEN LET r == Primary(Tail(toks), v, n) IN
           Res(IF r.val = 0 THEN 1 ELSE 0, r.log, r.calls, FALSE, r.rest)
    ELSE IF h = "__builtin_expect"
      THEN LET a == Primary(From(toks, 3), v, n)
               b == Primary(Tail(a.rest), v, n)
           IN Res(BuiltinExpect(a.val, b.val), a.log \o b.log,
                  a.calls + b.calls, FALSE, Tail(b.rest))
    ELSE IF h = "(" /\ IsAt(toks, 2, "void") /\ IsAt(toks, 3, ")")
      THEN LET r == Primary(From(toks, 4), v, n) IN
           Res(0, r.log, r.calls, FALSE, r.rest)
    ELSE IF h = "(" /\ IsAt(toks, 2, "{")
      THEN LET close == Match(toks, 3, 1, "{", "}")
               r == ExecStmts(SubSeq(toks, 3, close - 1), v, n)
           IN Res(0, r.log, r.calls, FALSE, From(toks, close + 2))
    ELSE IF h = "("
      THEN LET r == CommaExpr(Tail(toks), v, n) IN
           Res(r.val, r.log, r.calls, FALSE, Tail(r.rest))
    ELSE IF h = "["
      THEN \* [](){ body }: a closure; its body runs only when it is called
           LET close == Match(toks, 6, 1, "{", "}")
               called == IsAt(toks, close + 1, "(") /\ IsAt(toks, close + 2, ")")
           IN Res(0, <<>>, IF called THEN 1 ELSE 0, FALSE,
                  From(toks, IF called THEN close + 3 ELSE close + 1))
    ELSE IF h = "expr"
      THEN Res(v, <<<<toks[1].j, toks[1].k>>>>, 0, FALSE, Tail(toks))
    ELSE Res(IF h = "1" THEN 1 ELSE 0, <<>>, 0, FALSE, Tail(toks))

\* a , b: a is evaluated, its value dropped, then b.
CommaExpr(toks, v, n) ==
    LET r == Primary(toks, v, n) IN
    IF IsAt(r.rest, 1, ",")
    THEN LET q == CommaExpr(Tail(r.rest), v, n) IN
         Res(q.val, r.log \o q.log, r.calls + q.calls, FALSE, q.rest)
    ELSE r

EvalClauses(clauses, order, v, n) ==
    IF order = <<>> THEN Res(0, <<>>, 0, FALSE, <<>>)
    ELSE LET r == CommaExpr(clauses[Head(order)], v, n)
             q == EvalClauses(clauses, Tail(order), v, n)
         IN Res(0, r.log \o q.log, r.calls + q.calls, FALSE, <<>>)

ExecStmts(toks, v, n) ==
    IF toks = <<>> THEN Res(0, <<>>, 0, FALSE, <<>>)
    ELSE
      LET h == toks[1].s IN
      IF h = ";" THEN ExecStmts(Tail(toks), v, n)
      ELSE IF h = "{"
        THEN LET close == Match(toks, 2, 1, "{", "}")
                 r == ExecStmts(SubSeq(toks, 2, close - 1), v, n)
                 q == ExecStmts(From(toks, close + 1), v, n)
             IN Res(0, r.log \o q.log, r.calls + q.calls,
                    r.again \/ q.again, <<>>)
      ELSE IF h = "do"
        THEN \* do { body } while ( cond )
             LET close == Match(toks, 3, 1, "{", "}")
                 r == ExecStmts(SubSeq(toks, 3, close - 1), v, n)
                 c == CommaExpr(From(toks, close + 3), v, n)
                 q == ExecStmts(Tail(c.rest), v, n)
             IN Res(0, r.log \o c.log \o q.log, r.calls + c.calls + q.calls,
                    r.again \/ c.val # 0 \/ q.again, <<>>)
      ELSE IF h = "[" /\ IsAt(toks, 2, "[")
        THEN \* an attribute-specifier in front of a declaration
             ExecStmts(From(toks, Match(toks, 2, 1, "[", "]") + 1), v, n)
      ELSE IF h = "int"
        THEN \* int i [ ] = { clauses } ;
             LET close == Match(toks, 7, 1, "{", "}")
                 clauses == InstantiatePack(
                     SplitAcc(SubSeq(toks, 7, close - 1), 1, 0, <<>>,
                              {"(", "{"}, {")", "}"}), n)
                 r == EvalClauses(clauses, InitListOrder(Len(clauses)), v, n)
                 q == ExecStmts(From(toks, close + 1), v, n)
             IN Res(0, r.log \o q.log, r.calls + q.calls, q.again, <<>>)
      ELSE LET r == CommaExpr(toks, v, n)
               q == ExecStmts(r.rest, v, n)
           IN Res(0, r.log \o q.log, r.calls + q.calls, q.again, <<>>)

Outcome(r) == [val |-> r.val, log |-> r.log, calls |-> r.calls, again |-> r.again]

(***************************************************************************)
(* The header, directive by directive.                                     *)
(***************************************************************************)
Define(tbl, name, m) == (name :> m) @@ tbl

GEM5_FALLTHROUGH_mut(c) ==
    ObjectLike(56, <<"[", "[", "fallthrough", "]", "]">>)

\* #if __has_cpp_attribute(fallthrough) ... #else ... #endif
GEM5_FALLTHROUGH(c) ==
    IF c.has_fallthrough
    THEN ObjectLike(56, <<"[", "[", "fallthrough", "]", "]">>)
    ELSE ObjectLike(59, <<>>)

\* #if __has_cpp_attribute(nodiscard) ... #else ... #endif
GEM5_NO_DISCARD(c) ==
    IF c.has_nodiscard
    THEN ObjectLike(65, <<"[", "[", "nodiscard", "]", "]">>)
    ELSE ObjectLike(68, <<>>)

\* The branch of #if / #elif / #else taken for GEM5_VAR_USED.
VarUsedBranch_mut(c) ==
    IF DefinedGNUC(c) THEN "gnu"
    ELSE IF c.has_maybe_unused THEN "std" ELSE "error"

VarUsedBranch(c) ==
    IF c.has_maybe_unused THEN "std"
    ELSE IF DefinedGNUC(c) THEN "gnu" ELSE "error"

GEM5_VAR_USED(branch) ==
    IF branch = "std"
    THEN ObjectLike(74, <<"[", "[", "maybe_unused", "]", "]">>)
    ELSE ObjectLike(78, <<"[", "[", "gnu", "::", "unused", "]", "]">>)

GEM5_PACKED == ObjectLike(92, <<"[", "[", "gnu", "::", "packed", "]", "]">>)

GEM5_NO_INLINE == ObjectLike(95, <<"[", "[", "gnu", "::", "noinline", "]", "]">>)

GEM5_PUBLIC ==
    ObjectLike(98, <<"[", "[", "gnu", ":", "visibility", "(", "\"default\"",
                     ")", "]", "]">>)

GEM5_LOCAL ==
    ObjectLike(99, <<"[", "[", "gnu", "::", "visibility", "(", "\"hidden\"",
                     ")", "]", "]">>)

GEM5_WEAK == ObjectLike(100, <<"[", "[", "gnu", "::", "weak", "]", "]">>)

GEM5_ALIGNED ==
    FunctionLike(103, <<"alignment">>,
        <<"[", "[", "gnu", "::", "aligned", "(", "alignment", ")", "]", "]">>)

GEM5_UNREACHABLE == ObjectLike(106, <<"__builtin_unreachable", "(", ")">>)

GEM5_UNLIKELY_mut ==
    FunctionLike(114, <<"cond">>,
        <<"__builtin_expect", "(", "(", "cond", ")", ",", "0", ")">>)

GEM5_LIKELY ==
    FunctionLike(113, <<"cond">>,
        <<"__builtin_expect", "(", "!", "!", "(", "cond", ")", ",", "1", ")">>)

GEM5_UNLIKELY ==
    FunctionLike(114, <<"cond">>,
        <<"__builtin_expect", "(", "!", "!", "(", "cond", ")", ",", "0", ")">>)

GEM5_DEPRECATED ==
    FunctionLike(118, <<"message">>,
        <<"[", "[", "gnu", "::", "deprecated", "(", "message", ")", "]", "]">>)

EnumValGate_mut(c) == c.gnuc >= EnumDeprecationGnuc

\* #if defined(__clang__) || __GNUC__ >= 6
EnumValGate(c) == c.clang \/ c.gnuc >= EnumDeprecationGnuc

GEM5_DEPRECATED_ENUM_VAL(c) ==
    IF EnumValGate(c)
    THEN FunctionLike(125, <<"message">>,
             <<"GEM5_DEPRECATED", "(", "message", ")">>)
    ELSE FunctionLike(127, <<"message">>, <<>>)

GEM5_DEPRECATED_MACRO_mut ==
    FunctionLike(134, <<"name", "definition", "message">>,
        <<"(", "[", "]", "(", ")", "{", "GEM5_DEPRECATED", "(", "message", ")",
          "int", "name", "{", "}", ";", "return", "name", ";", "}", "(", ")",
          ",", "(", "definition", ")", ")">>)

GEM5_DEPRECATED_MACRO ==
    FunctionLike(134, <<"name", "definition", "message">>,
        <<"(", "[", "]", "(", ")", "{", "GEM5_DEPRECATED", "(", "message", ")",
          "int", "name", "{", "}", ";", "return", "name", ";", "}", ",",
          "(", "definition", ")", ")">>)

GEM5_DEPRECATED_MACRO_STMT ==
    FunctionLike(138, <<"name", "definition", "message">>,
        <<"do", "{", "{", "definition", ";", "}", "GEM5_DEPRECATED_MACRO", "(",
          "name", ",", "{", "}", ",", "message", ")", ";", "}", "while", "(",
          "0", ")">>)

GEM5_FOR_EACH_IN_PACK ==
    FunctionLike(147, <<"...">>,
        <<"do", "{", "GEM5_VAR_USED", "int", "i", "[", "]", "=", "{", "0", ",",
          "(", "(", "void", ")", "(", "__VA_ARGS__", ")", ",", "0", ")", "...",
          "}", ";", "}", "while", "(", "0", ")">>)

\* The branch of "#if defined(__GNUC__) ... #else #error" taken.
CompilerBranch_mut(c) == "gnu"

CompilerBranch(c) == IF DefinedGNUC(c) THEN "gnu" ELSE "error"

\* The #defines of lines 92-148, in order.
CompilerSpecific(c) ==
    <<  <<"GEM5_PACKED", GEM5_PACKED>>,
        <<"GEM5_NO_INLINE", GEM5_NO_INLINE>>,
        <<"GEM5_PUBLIC", GEM5_PUBLIC>>,
        <<"GEM5_LOCAL", GEM5_LOCAL>>,
        <<"GEM5_WEAK", GEM5_WEAK>>,
        <<"GEM5_ALIGNED", GEM5_ALIGNED>>,
        <<"GEM5_UNREACHABLE", GEM5_UNREACHABLE>>,
        <<"GEM5_LIKELY", GEM5_LIKELY>>,
        <<"GEM5_UNLIKELY", GEM5_UNLIKELY>>,
        <<"GEM5_DEPRECATED", GEM5_DEPRECATED>>,
        <<"GEM5_DEPRECATED_ENUM_VAL", GEM5_DEPRECATED_ENUM_VAL(c)>>,
        <<"GEM5_DEPRECATED_MACRO", GEM5_DEPRECATED_MACRO>>,
        <<"GEM5_DEPRECATED_MACRO_STMT", GEM5_DEPRECATED_MACRO_STMT>>,
        <<"GEM5_FOR_EACH_IN_PACK", GEM5_FOR_EACH_IN_PACK>>  >>

RECURSIVE DefineAll(_, _)
DefineAll(tbl, defs) ==
    IF defs = <<>> THEN tbl
    ELSE DefineAll(Define(tbl, Head(defs)[1], Head(defs)[2]), Tail(defs))

GEM5_CLASS_VAR_USED_mut(c) ==
    IF DefinedGNUC(c)
    THEN ObjectLike(159, <<"GEM5_VAR_USED">>)
    ELSE ObjectLike(161, <<>>)

\* #if defined(__clang__) ... #else ... #endif
GEM5_CLASS_VAR_USED(c) ==
    IF c.clang
    THEN ObjectLike(159, <<"GEM5_VAR_USED">>)
    ELSE ObjectLike(161, <<>>)

\* The aliases of lines 165-178.
M5_VAR_USED == ObjectLike(165, <<"GEM5_VAR_USED">>)

M5_NODISCARD == ObjectLike(166, <<"GEM5_NO_DISCARD">>)

M5_FALLTHROUGH == ObjectLike(167, <<"GEM5_FALLTHROUGH">>)

M5_ATTR_PACKED == ObjectLike(168, <<"GEM5_PACKED">>)

M5_NO_INLINE == ObjectLike(169, <<"GEM5_NO_INLINE">>)

M5_PUBLIC == ObjectLike(170, <<"GEM5_PUBLIC">>)

M5_LOCAL == ObjectLike(171, <<"GEM5_LOCAL">>)

M5_WEAK == ObjectLike(172, <<"GEM5_WEAK">>)

M5_ALIGNED == FunctionLike(173, <<"x">>, <<"GEM5_ALIGNED", "(", "x", ")">>)

M5_UNREACHABLE == ObjectLike(174, <<"GEM5_UNREACHABLE">>)

M5_LIKELY_mut == FunctionLike(175, <<"x">>, <<"GEM5_UNLIKELY", "(", "x", ")">>)

M5_LIKELY == FunctionLike(175, <<"x">>, <<"GEM5_LIKELY", "(", "x", ")">>)

M5_UNLIKELY == FunctionLike(176, <<"x">>, <<"GEM5_UNLIKELY", "(", "x", ")">>)

M5_FOR_EACH_IN_PACK == FunctionLike(177, <<"...">>, <<"GEM5_FOR_EACH_IN_PACK", "(", "__VA_ARGS__", ")">>)

M5_CLASS_VAR_USED == ObjectLike(178, <<"GEM5_CLASS_VAR_USED">>)

Aliases ==
    <<  <<"M5_VAR_USED", M5_VAR_USED>>,
        <<"M5_NODISCARD", M5_NODISCARD>>,
        <<"M5_FALLTHROUGH", M5_FALLTHROUGH>>,
        <<"M5_ATTR_PACKED", M5_ATTR_PACKED>>,
        <<"M5_NO_INLINE", M5_NO_INLINE>>,
        <<"M5_PUBLIC", M5_PUBLIC>>,
        <<"M5_LOCAL", M5_LOCAL>>,
        <<"M5_WEAK", M5_WEAK>>,
        <<"M5_ALIGNED", M5_ALIGNED>>,
        <<"M5_UNREACHABLE", M5_UNREACHABLE>>,
        <<"M5_LIKELY", M5_LIKELY>>,
        <<"M5_UNLIKELY", M5_UNLIKELY>>,
        <<"M5_FOR_EACH_IN_PACK", M5_FOR_EACH_IN_PACK>>,
        <<"M5_CLASS_VAR_USED", M5_CLASS_VAR_USED>>  >>

NoResult == [val |-> 0, log |-> <<>>, calls |-> 0, again |-> FALSE]

Init ==
    /\ cfg \in Configs
    /\ macros = <<>>
    /\ pc = "guard"
    /\ failed = FALSE
    /\ use = "none"
    /\ input = <<0, 0>>
    /\ result = NoResult

\* An #error directive makes the translation fail; the preprocessor either
\* stops there or reports it and goes on with the rest of the header.
AfterError(next) ==
    /\ failed' = TRUE
    /\ pc' \in {next, "aborted"}

\* #ifndef __BASE_COMPILER_HH__ / #define __BASE_COMPILER_HH__
IncludeGuard ==
    /\ pc = "guard"
    /\ macros' = Define(macros, "__BASE_COMPILER_HH__", ObjectLike(42, <<>>))
    /\ pc' = "fallthrough"
    /\ UNCHANGED <<cfg, failed, use, input, result>>

DefFallthrough ==
    /\ pc = "fallthrough"
    /\ macros' = Define(macros, "GEM5_FALLTHROUGH", GEM5_FALLTHROUGH(cfg))
    /\ pc' = "nodiscard"
    /\ UNCHANGED <<cfg, failed, use, input, result>>

DefNoDiscard ==
    /\ pc = "nodiscard"
    /\ macros' = Define(macros, "GEM5_NO_DISCARD", GEM5_NO_DISCARD(cfg))
    /\ pc' = "var_used"
    /\ UNCHANGED <<cfg, failed, use, input, result>>

DefVarUsed ==
    /\ pc = "var_used"
    /\ VarUsedBranch(cfg) # "error"
    /\ macros' = Define(macros, "GEM5_VAR_USED", GEM5_VAR_USED(VarUsedBranch(cfg)))
    /\ pc' = "compiler"
    /\ UNCHANGED <<cfg, failed, use, input, result>>

ErrorVarUsed ==
    /\ pc = "var_used"
    /\ VarUsedBranch(cfg) = "error"
    /\ AfterError("compiler")
    /\ UNCHANGED <<cfg, macros, use, input, result>>

DefCompilerSpecific ==
    /\ pc = "compiler"
    /\ CompilerBranch(cfg) = "gnu"
    /\ macros' = DefineAll(macros, CompilerSpecific(cfg))
    /\ pc' = "class_var_used"
    /\ UNCHANGED <<cfg, failed, use, input, result>>

ErrorCompiler ==
    /\ pc = "compiler"
    /\ CompilerBranch(cfg) = "error"
    /\ AfterError("class_var_used")
    /\ UNCHANGED <<cfg, macros, use, input, result>>

DefClassVarUsed ==
    /\ pc = "class_var_used"
    /\ macros' = Define(macros, "GEM5_CLASS_VAR_USED", GEM5_CLASS_VAR_USED(cfg))
    /\ pc' = "aliases"
    /\ UNCHANGED <<cfg, failed, use, input, result>>

DefAliases ==
    /\ pc = "aliases"
    /\ macros' = DefineAll(macros, Aliases)
    /\ pc' = "done"
    /\ UNCHANGED <<cfg, failed, use, input, result>>

(***************************************************************************)
(* Uses of the macros in a translation unit that includes the header.     *)
(***************************************************************************)
CondValues == (0 - 1)..MaxCond

Usable == pc = "done" /\ ~failed

\* if (GEM5_LIKELY(c)) / if (GEM5_UNLIKELY(c)), by either name.
UseBranchHint ==
    /\ Usable
    /\ \E name \in {"GEM5_LIKELY", "GEM5_UNLIKELY", "M5_LIKELY", "M5_UNLIKELY"},
          c \in CondValues :
        /\ use' = name
        /\ input' = <<c, 0>>
        /\ result' = Outcome(CommaExpr(ExpandCall(name, 1, macros), c, 0))
    /\ UNCHANGED <<cfg, macros, pc, failed>>

DeprecatedUse(name) ==
    <<Tok(name), Tok("("), Tok("OLD_NAME"), Tok(","), Operand(1), Tok(","),
      Tok("\"message\""), Tok(")")>>

\* x = GEM5_DEPRECATED_MACRO(OLD_NAME, e, "message")
UseDeprecatedMacro ==
    /\ Usable
    /\ \E v \in CondValues :
        /\ use' = "GEM5_DEPRECATED_MACRO"
        /\ input' = <<v, 0>>
        /\ result' = Outcome(CommaExpr(
               Expand(DeprecatedUse("GEM5_DEPRECATED_MACRO"), macros, {}), v, 0))
    /\ UNCHANGED <<cfg, macros, pc, failed>>

\* GEM5_DEPRECATED_MACRO_STMT(OLD_NAME, s, "message");
UseDeprecatedMacroStmt ==
    /\ Usable
    /\ use' = "GEM5_DEPRECATED_MACRO_STMT"
    /\ input' = <<0, 0>>
    /\ result' = Outcome(ExecStmts(
           Expand(DeprecatedUse("GEM5_DEPRECATED_MACRO_STMT"), macros, {})
               \o <<Tok(";")>>, 0, 0))
    /\ UNCHANGED <<cfg, macros, pc, failed>>

\* GEM5_FOR_EACH_IN_PACK(e1(args), ..., ek(args)); with a pack of n elements
UseForEachInPack ==
    /\ Usable
    /\ \E name \in {"GEM5_FOR_EACH_IN_PACK", "M5_FOR_EACH_IN_PACK"},
          n \in 0..MaxPack, k \in 1..MaxArgs :
        /\ use' = name
        /\ input' = <<n, k>>
        /\ result' = Outcome(ExecStmts(
               ExpandCall(name, k, macros) \o <<Tok(";")>>, 0, n))
    /\ UNCHANGED <<cfg, macros, pc, failed>>

Next ==
    \/ IncludeGuard
    \/ DefFallthrough
    \/ DefNoDiscard
    \/ DefVarUsed
    \/ ErrorVarUsed
    \/ DefCompilerSpecific
    \/ ErrorCompiler
    \/ DefClassVarUsed
    \/ DefAliases
    \/ UseBranchHint
    \/ UseDeprecatedMacro
    \/ UseDeprecatedMacroStmt
    \/ UseForEachInPack

Spec == Init /\ [][Next]_vars

(***************************************************************************)
(* Vocabulary of the properties.                                           *)
(***************************************************************************)
Processed == pc \in {"done", "aborted"}

Built == pc = "done" /\ ~failed

Defined(name) == name \in DOMAIN macros

\* The text a use of the macro leaves behind, operands included.
Expansion(name) ==
    IF macros[name].fn
    THEN ExpandCall(name, 1, macros)
    ELSE ExpandName(name, macros)

Attr(ss) == T(<<"[", "[">> \o ss \o <<"]", "]">>)

Mandatory ==
    {"GEM5_PACKED", "GEM5_NO_INLINE", "GEM5_PUBLIC", "GEM5_LOCAL", "GEM5_WEAK",
     "GEM5_ALIGNED", "GEM5_UNREACHABLE", "GEM5_LIKELY", "GEM5_UNLIKELY"}

\* C1: on a toolchain that is not GNU-compatible, processing the header
\* always ends in a failed build, whatever standard attributes exist, and
\* no mandatory annotation is ever defined with an empty expansion.
C1_NonGnuFails ==
    ~DefinedGNUC(cfg) =>
        /\ Processed => failed
        /\ \A m \in Mandatory : ~(Defined(m) /\ Expansion(m) = <<>>)

C1_Witness ==
    /\ ~DefinedGNUC(cfg) /\ pc = "done" /\ failed
    /\ cfg.has_fallthrough /\ cfg.has_nodiscard /\ cfg.has_maybe_unused

\* C2 as stated: whenever the toolchain lacks an advisory annotation
\* (fallthrough, no-discard, maybe-unused, enumerator deprecation), that
\* annotation expands to nothing and the build succeeds.
C2_Original ==
    Processed =>
        /\ ~cfg.has_fallthrough =>
               ~failed /\ ExpandName("GEM5_FALLTHROUGH", macros) = <<>>
        /\ ~cfg.has_nodiscard =>
               ~failed /\ ExpandName("GEM5_NO_DISCARD", macros) = <<>>
        /\ ~cfg.has_maybe_unused =>
               ~failed /\ ExpandName("GEM5_VAR_USED", macros) = <<>>
        /\ (~cfg.clang /\ cfg.gnuc < 6) =>
               ~failed /\ ExpandCall("GEM5_DEPRECATED_ENUM_VAL", 1, macros) = <<>>

\* C2 amended: an unsupported fallthrough or no-discard marker expands to
\* nothing, and so does the enumerator deprecation marker on non-clang GCC
\* before 6; the maybe-unused marker never expands to nothing; and the build
\* fails exactly when the toolchain is not GNU-compatible, so on a
\* GNU-compatible toolchain no missing advisory annotation fails the build.
C2_AdvisoryDegrades ==
    /\ (Defined("GEM5_FALLTHROUGH") /\ ~cfg.has_fallthrough) =>
           Expansion("GEM5_FALLTHROUGH") = <<>>
    /\ (Defined("GEM5_NO_DISCARD") /\ ~cfg.has_nodiscard) =>
           Expansion("GEM5_NO_DISCARD") = <<>>
    /\ (Defined("GEM5_DEPRECATED_ENUM_VAL") /\ ~cfg.clang /\ cfg.gnuc < 6) =>
           Expansion("GEM5_DEPRECATED_ENUM_VAL") = <<>>
    /\ Defined("GEM5_VAR_USED") => Expansion("GEM5_VAR_USED") # <<>>
    /\ Processed => (failed <=> ~DefinedGNUC(cfg))
    /\ pc = "done" =>
           Defined("GEM5_FALLTHROUGH") /\ Defined("GEM5_NO_DISCARD")

C2_Witness ==
    /\ Built
    /\ ~cfg.has_fallthrough /\ ~cfg.has_nodiscard /\ ~cfg.has_maybe_unused
    /\ ~cfg.clang /\ cfg.gnuc < 6
    /\ Expansion("GEM5_FALLTHROUGH") = <<>>

\* C3: the maybe-unused marker is [[maybe_unused]] whenever the standard
\* attribute is available, otherwise [[gnu::unused]] on a GNU-compatible
\* toolchain, otherwise the build fails; it never expands to nothing.
C3_VarUsedPriority ==
    /\ pc \notin {"guard", "fallthrough", "nodiscard", "var_used"} =>
          IF cfg.has_maybe_unused
          THEN /\ Defined("GEM5_VAR_USED")
               /\ Expansion("GEM5_VAR_USED") = Attr(<<"maybe_unused">>)
          ELSE IF DefinedGNUC(cfg)
          THEN /\ Defined("GEM5_VAR_USED")
               /\ Expansion("GEM5_VAR_USED") = Attr(<<"gnu", "::", "unused">>)
          ELSE ~Defined("GEM5_VAR_USED") /\ failed
    /\ Defined("GEM5_VAR_USED") => Expansion("GEM5_VAR_USED") # <<>>

C3_Witness ==
    /\ pc = "done" /\ cfg.has_maybe_unused /\ DefinedGNUC(cfg)
    /\ Expansion("GEM5_VAR_USED") = Attr(<<"maybe_unused">>)

\* The annotations the header defines before its alias section, and the
\* aliases of that section.
Modern == {m \in DOMAIN macros : macros[m].line > 42 /\ macros[m].line < 164}

Legacy == {m \in DOMAIN macros : macros[m].line > 164}

AliasTarget(a) == macros[a].body[1].s

AliasesOf(m) == {a \in Legacy : AliasTarget(a) = m}

\* Every alias names one modern annotation of the same kind and expands,
\* operands included, to the text its modern counterpart expands to.
AliasesFaithful ==
    \A a \in Legacy :
        /\ AliasTarget(a) \in Modern
        /\ macros[a].fn = macros[AliasTarget(a)].fn
        /\ IF macros[a].fn
           THEN \A n \in (IF macros[a].params = <<"...">>
                          THEN 1..MaxArgs ELSE {1}) :
                   ExpandCall(a, n, macros) = ExpandCall(AliasTarget(a), n, macros)
           ELSE ExpandName(a, macros) = ExpandName(AliasTarget(a), macros)

\* C4 as stated: in a configuration that builds, every modern annotation
\* has exactly one legacy alias and every alias expands like the one modern
\* annotation it names.
C4_Original ==
    Built =>
        /\ \A m \in Modern : Cardinality(AliasesOf(m)) = 1
        /\ AliasesFaithful

Unaliased ==
    {"GEM5_DEPRECATED", "GEM5_DEPRECATED_ENUM_VAL", "GEM5_DEPRECATED_MACRO",
     "GEM5_DEPRECATED_MACRO_STMT"}

\* C4 amended: in a configuration that builds, every alias names exactly
\* one modern annotation and expands to the same text; every modern
\* annotation has exactly one alias, except the four deprecation macros,
\* which have none.
C4_AliasesOneToOne ==
    Built =>
        /\ \A m \in Modern :
               Cardinality(AliasesOf(m)) = IF m \in Unaliased THEN 0 ELSE 1
        /\ Unaliased \subseteq Modern
        /\ AliasesFaithful

C4_Witness ==
    /\ Built
    /\ Cardinality(Legacy) = 14 /\ Cardinality(Modern) = 18
    /\ ExpandCall("M5_ALIGNED", 1, macros)
           = T(<<"[", "[", "gnu", "::", "aligned", "(">>) \o <<Operand(1)>>
                 \o T(<<")", "]", "]">>)

\* The operands of k expressions over a pack of n elements, in the order
\* element 1 (arguments 1..k), element 2, ..., element n.
InOrder(n, k) ==
    [i \in 1..(n * k) |-> <<((i - 1) % k) + 1, ((i - 1) \div k) + 1>>]

\* C5: GEM5_FOR_EACH_IN_PACK evaluates the expansion for element 1, then
\* element 2, ..., each exactly once, the arguments of one element left to
\* right, nothing for the empty pack, in a loop body that runs once.
C5_PackInOrder ==
    use \in {"GEM5_FOR_EACH_IN_PACK", "M5_FOR_EACH_IN_PACK"} =>
        /\ result.log = InOrder(input[1], input[2])
        /\ ~result.again
        /\ result.calls = 0

C5_Witness ==
    /\ use = "GEM5_FOR_EACH_IN_PACK"
    /\ input = <<3, 2>>
    /\ result.log = <<<<1, 1>>, <<2, 1>>, <<1, 2>>, <<2, 2>>, <<1, 3>>, <<2, 3>>>>

\* C6: GEM5_LIKELY(c) and GEM5_UNLIKELY(c) evaluate c once and yield its
\* truth value, the same for both hints.
C6_BranchHintValue ==
    use \in {"GEM5_LIKELY", "GEM5_UNLIKELY", "M5_LIKELY", "M5_UNLIKELY"} =>
        /\ result.val = (IF input[1] # 0 THEN 1 ELSE 0)
        /\ result.log = <<<<1, 0>>>>

C6_Witness ==
    /\ use = "GEM5_UNLIKELY" /\ input[1] = 2
    /\ result.val = 1 /\ Len(result.log) = 1

\* C7: GEM5_DEPRECATED_MACRO evaluates the wrapped expression once and
\* yields its value without calling the lambda; GEM5_DEPRECATED_MACRO_STMT
\* executes the wrapped statement once in a loop body that runs once.
C7_DeprecatedWrappers ==
    /\ use = "GEM5_DEPRECATED_MACRO" =>
           /\ result.val = input[1]
           /\ result.log = <<<<1, 0>>>>
           /\ result.calls = 0
    /\ use = "GEM5_DEPRECATED_MACRO_STMT" =>
           /\ result.log = <<<<1, 0>>>>
           /\ result.calls = 0
           /\ ~result.again

C7_Witness ==
    /\ use = "GEM5_DEPRECATED_MACRO_STMT"
    /\ result.log = <<<<1, 0>>>> /\ ~result.again

DeprecatedAttr ==
    T(<<"[", "[", "gnu", "::", "deprecated", "(">>) \o <<Operand(1)>>
        \o T(<<")", "]", "]">>)

\* C8: on a GNU-compatible toolchain the enumerator deprecation marker is
\* the deprecated attribute with its message exactly when the compiler is
\* clang or __GNUC__ >= 6 and nothing exactly otherwise; the general marker
\* is always the deprecated attribute with its message.
C8_EnumValGate ==
    (DefinedGNUC(cfg) /\ Defined("GEM5_DEPRECATED_ENUM_VAL")) =>
        /\ Expansion("GEM5_DEPRECATED_ENUM_VAL") = DeprecatedAttr
               <=> (cfg.clang \/ cfg.gnuc >= 6)
        /\ Expansion("GEM5_DEPRECATED_ENUM_VAL") = <<>>
               <=> (~cfg.clang /\ cfg.gnuc < 6)
        /\ Expansion("GEM5_DEPRECATED") = DeprecatedAttr

C8_Witness ==
    /\ pc = "done" /\ cfg.clang /\ cfg.gnuc = 4
    /\ Expansion("GEM5_DEPRECATED_ENUM_VAL") = DeprecatedAttr

\* C9: in a configuration that builds, GEM5_CLASS_VAR_USED expands to what
\* GEM5_VAR_USED expands to exactly when the toolchain is clang, and to
\* nothing otherwise.
C9_ClassVarUsed ==
    Built =>
        /\ Expansion("GEM5_CLASS_VAR_USED") = Expansion("GEM5_VAR_USED")
               <=> cfg.clang
        /\ ~cfg.clang => Expansion("GEM5_CLASS_VAR_USED") = <<>>

C9_Witness ==
    /\ Built /\ ~cfg.clang /\ cfg.has_maybe_unused
    /\ Expansion("GEM5_CLASS_VAR_USED") = <<>>

AttributeStyle ==
    {"GEM5_PACKED", "GEM5_NO_INLINE", "GEM5_PUBLIC", "GEM5_LOCAL", "GEM5_WEAK",
     "GEM5_ALIGNED"}

\* [[gnu::<name> ...]]
GnuScoped(toks) ==
    /\ Len(toks) >= 7
    /\ SubSeq(toks, 1, 4) = T(<<"[", "[", "gnu", "::">>)
    /\ SubSeq(toks, Len(toks) - 1, Len(toks)) = T(<<"]", "]">>)

\* C10: on a GNU-compatible toolchain every attribute-style mandatory
\* annotation expands to an attribute of the shape [[gnu::<name>(<args>)]],
\* and GEM5_PUBLIC is [[gnu::visibility("default")]] just as GEM5_LOCAL is
\* [[gnu::visibility("hidden")]].
C10_GnuScopedAttributes ==
    (DefinedGNUC(cfg) /\ pc = "done") =>
        /\ \A m \in AttributeStyle : GnuScoped(Expansion(m))
        /\ Expansion("GEM5_LOCAL")
               = Attr(<<"gnu", "::", "visibility", "(", "\"hidden\"", ")">>)
        /\ Expansion("GEM5_PUBLIC")
               = Attr(<<"gnu", "::", "visibility", "(", "\"default\"", ")">>)

====
